---- MODULE Spec2Model ----
(***************************************************************************)
(* A model of the audio-slicer front end: the main window's batch run     *)
(* (gui/mainwindow.py) and the preview's chunk-range computation          *)
(* (utils/preview.py).                                                    *)
(*                                                                         *)
(* Strings that the code takes apart (paths, the text of the line edits)  *)
(* are sequences of one-character strings, so that basename, rsplit,      *)
(* splitext, lower, int() and "%s_%d.wav" are computed as the code         *)
(* computes them.                                                          *)
(*                                                                         *)
(* Threads.  The handlers of MainWindow run on the GUI thread, one at a    *)
(* time, each to completion.  WorkThread.run runs on its own thread and    *)
(* interleaves with them step by step.  The signals oneFinished and        *)
(* finished are emitted on the worker thread and received by an object of  *)
(* the GUI thread, so Qt queues them: they are events of the GUI thread's  *)
(* event loop, delivered in the order they were posted.  An exception that *)
(* leaves run() ends the thread; QThread then emits finished as for a      *)
(* normal return.                                                          *)
(*                                                                         *)
(* Widgets.  A disabled widget takes no user input: a click on a button or *)
(* an edit of a line edit happens only while the widget is enabled.  Drop  *)
(* events go to the window, which is never disabled.                       *)
(***************************************************************************)
EXTENDS Integers, Sequences, FiniteSets, TLC

VARIABLES
    taskList,       \* ui.lwTaskList: the items, each [text, data]
    leText,         \* the text of the six line edits
    enabled,        \* which widgets are enabled
    btnStartText,   \* the caption of ui.btnStart
    progressMax,    \* ui.progressBar.maximum()
    progressValue,  \* ui.progressBar.value()
    workers,        \* self.workers: the WorkThread objects, with their state
    workCount,      \* self.workCount
    workFinished,   \* self.workFinished
    processing,     \* self.processing
    events,         \* queued signals waiting in the GUI thread's event loop
    pvPc,           \* SlicingPreview: "off", "ready" (constructed) or "done"
    pvTags,         \* SlicingPreview.sil_tags
    pvHop,          \* SlicingPreview.hop_size
    pvTotal,        \* SlicingPreview.total_frames
    pvShape,        \* SlicingPreview.waveform_shape
    pvRanges,       \* the value returned by _get_ranges
    windowOpen,     \* the main window has not been closed
    slPc,           \* the slicing engine: "off", "env", "raw", "pass" or "done"
    slEnv,          \* the envelope: one loudness value per hop
    slCfg,          \* the SliceConfig and the buffer's total_frames
    slRaw,          \* the raw silence episodes, in hops
    slAccepted,     \* the episodes the trimmer's two policies accept, in frames
    slEps,          \* the episodes the min-length pass has kept so far
    slRemovals,     \* the number of episodes the min-length pass has dropped
    slChunks        \* the chunk ranges the segmenter emits

guiVars == <<taskList, leText, enabled, btnStartText, progressMax, progressValue,
             workers, workCount, workFinished, processing, events>>
pvVars == <<pvPc, pvTags, pvHop, pvTotal, pvShape, pvRanges>>
slVars == <<slPc, slEnv, slCfg, slRaw, slAccepted, slEps, slRemovals, slChunks>>
vars == <<taskList, leText, enabled, btnStartText, progressMax, progressValue,
          workers, workCount, workFinished, processing, events,
          pvPc, pvTags, pvHop, pvTotal, pvShape, pvRanges,
          windowOpen,
          slPc, slEnv, slCfg, slRaw, slAccepted, slEps, slRemovals, slChunks>>

-----------------------------------------------------------------------------
(* Bounds *)

\* the longest task list
MaxFiles == 2
\* the most chunks the slicer returns for one file
MaxChunks == 2
\* the most paths one file dialog or one drop delivers
MaxPick == 1

-----------------------------------------------------------------------------
(* Strings as sequences of characters *)

Min(a, b) == IF a < b THEN a ELSE b

\* the greatest index of character c in s, 0 when there is none (str.rfind + 1)
LastIndexOf(s, c) ==
    LET hits == {i \in 1..Len(s) : s[i] = c}
    IN  IF hits = {} THEN 0 ELSE CHOOSE i \in hits : \A j \in hits : j <= i

\* os.path.basename
Basename(p) == SubSeq(p, LastIndexOf(p, "/") + 1, Len(p))

\* os.path.dirname: the head up to the last slash, trailing slashes stripped
\* unless the head is nothing but slashes
Dirname(p) ==
    LET head == SubSeq(p, 1, LastIndexOf(p, "/"))
        keep == {i \in 1..Len(head) : head[i] # "/"}
    IN  IF keep = {} THEN head
        ELSE SubSeq(head, 1, CHOOSE i \in keep : \A j \in keep : j <= i)

\* os.path.join(a, b)
Join(a, b) ==
    IF Len(b) > 0 /\ b[1] = "/" THEN b
    ELSE IF Len(a) = 0 \/ a[Len(a)] = "/" THEN a \o b
    ELSE a \o <<"/">> \o b

\* the working directory of the process
Cwd == <<"/", "w">>

\* os.path.abspath, for paths that hold no "." or ".." component
Abspath(p) == IF Len(p) > 0 /\ p[1] = "/" THEN p ELSE Join(Cwd, p)

\* name.rsplit('.', maxsplit=1)[0]
RsplitStem(name) ==
    IF LastIndexOf(name, ".") = 0 THEN name
    ELSE SubSeq(name, 1, LastIndexOf(name, ".") - 1)

\* os.path.splitext(p)[1]: from the last dot of the last component, unless
\* that component has nothing but dots before it
SplitextExt(p) ==
    LET sep == LastIndexOf(p, "/")
        dot == LastIndexOf(p, ".")
    IN  IF dot > sep /\ \E k \in (sep + 1)..(dot - 1) : p[k] # "."
        THEN SubSeq(p, dot, Len(p))
        ELSE <<>>

\* str.lower, on the letters the paths of the model use
LowerChar(c) ==
    CASE c = "W" -> "w"
      [] c = "A" -> "a"
      [] c = "V" -> "v"
      [] OTHER -> c

Lower(s) == [i \in 1..Len(s) |-> LowerChar(s[i])]

Digits == <<"0", "1", "2", "3", "4", "5", "6", "7", "8", "9">>

IsDigit(c) == \E d \in 1..10 : Digits[d] = c

DigitValue(c) == (CHOOSE d \in 1..10 : Digits[d] = c) - 1

\* "%d" % n for n >= 0
RECURSIVE Dec(_)
Dec(n) == IF n < 10 THEN <<Digits[n + 1]>>
          ELSE Dec(n \div 10) \o <<Digits[(n % 10) + 1]>>

\* the value of a string of decimal digits
RECURSIVE DecValue(_)
DecValue(s) == IF Len(s) = 0 THEN 0
               ELSE 10 * DecValue(SubSeq(s, 1, Len(s) - 1)) + DigitValue(s[Len(s)])

AllDigits(s) == Len(s) > 0 /\ \A i \in 1..Len(s) : IsDigit(s[i])

\* int(text): <<TRUE, value>>, or <<FALSE, 0>> where int() raises ValueError
ParseInt(s) == IF AllDigits(s) THEN <<TRUE, DecValue(s)>> ELSE <<FALSE, 0>>

\* float(text) for texts made of an optional sign and digits: <<TRUE, value>>,
\* or <<FALSE, 0>> where float() raises ValueError
ParseFloat(s) ==
    IF Len(s) > 0 /\ s[1] \in {"-", "+"}
    THEN IF AllDigits(Tail(s))
         THEN <<TRUE, (IF s[1] = "-" THEN -1 ELSE 1) * DecValue(Tail(s))>>
         ELSE <<FALSE, 0>>
    ELSE ParseInt(s)

\* all sequences over S of length lo..hi
SeqsOf(S, lo, hi) == UNION {[1..n -> S] : n \in lo..hi}

-----------------------------------------------------------------------------
(* The inputs *)

FileA == <<"/", "d", "/", "a", ".", "w", "a", "v">>
FileB == <<"/", "e", "/", "a", ".", "w", "a", "v">>
FileC == <<"/", "d", "/", "b", ".", "c", ".", "W", "A", "V">>
FileT == <<"/", "d", "/", "n", ".", "t", "x", "t">>

\* what the file dialog of _on_add_audio_files can return
DialogPaths == {FileA, FileB}

\* what a drop can carry: QUrl objects, local files or not
DropUrls == {[local |-> TRUE, path |-> FileA], [local |-> TRUE, path |-> FileC],
             [local |-> TRUE, path |-> FileT], [local |-> FALSE, path |-> FileB]}

IntFields == {"leMinLen", "leMinInterval", "leHopSize", "leMaxSilence"}
Fields == {"leThreshold", "leOutputDir"} \cup IntFields

\* the widgets _setProcessing switches
Widgets == {"btnStart", "btnPreview", "btnAddFiles", "lwTaskList", "btnClearList",
            "btnBrowse"} \cup Fields

OutDirO == <<"/", "o">>

\* the texts the user leaves in a line edit: a value its validator accepts, or
\* the empty text every validator lets through as an intermediate input
TextsOf(f) ==
    CASE f = "leThreshold" -> {<<"-", "4", "0">>, <<>>}
      [] f = "leOutputDir" -> {<<>>, OutDirO}
      [] OTHER -> {<<"1", "0">>, <<>>}

\* the directories the directory dialog of _on_browse_output_dir can return;
\* the empty path is a cancelled dialog
BrowseDirs == {<<>>, OutDirO}

\* QDir.toNativeSeparators where the native separator is "/"
ToNativeSeparators(p) == [i \in 1..Len(p) |-> IF p[i] = "/" THEN "/" ELSE p[i]]

-----------------------------------------------------------------------------
(* MainWindow *)

\* progressBar.setMaximum(100) in __init__
ProgressInitMax == 100

\* QProgressBar.setMaximum(m) with minimum 0: <<maximum, value>> afterwards;
\* a value left outside the range is reset to minimum - 1
BarSetMaximum(max, val, m) ==
    LET newMax == IF m < 0 THEN 0 ELSE m
    IN  <<newMax, IF newMax # max /\ val > newMax THEN -1 ELSE val>>

\* QProgressBar.setValue(v) with minimum 0: the value afterwards; a value
\* outside the range is ignored (unless the range is 0..0)
BarSetValue(max, val, v) ==
    IF (v > max \/ v < 0) /\ max # 0 THEN val ELSE v

\* a QListWidgetItem: the file name as text, the full path at UserRole + 1
Item(path) == [text |-> Basename(path), data |-> path]

\* the state of a WorkThread just constructed
NewWorker(paths) ==
    [filenames |-> paths,  \* self.filenames
     idx       |-> 1,      \* the position of `for filename in self.filenames`
     pc        |-> "read", \* the next statement of run()
     slicer    |-> <<>>,   \* the parameters of the local `slicer`
     out_dir   |-> <<>>,   \* the local `out_dir`
     nchunks   |-> 0,      \* len(chunks)
     chunk     |-> 0,      \* the position i of `for i, chunk in enumerate(chunks)`
     counts    |-> <<>>,   \* len(chunks) of every file sliced so far
     log       |-> <<>>,   \* the soundfile.write calls made so far
     emitted   |-> 0,      \* the oneFinished signals emitted so far
     failedAt  |-> 0]      \* the file at which an exception left run(), or 0

InitGui ==
    /\ taskList = <<>>
    /\ leText = [f \in Fields |->
                    CASE f = "leThreshold" -> <<"-", "4", "0">>
                      [] f = "leOutputDir" -> <<>>
                      [] OTHER -> <<"1", "0">>]
    /\ enabled = [w \in Widgets |-> TRUE]
    /\ btnStartText = "Start"
    /\ progressMax = ProgressInitMax
    /\ progressValue = 0
    /\ workers = <<>>
    /\ workCount = 0
    /\ workFinished = 0
    /\ processing = FALSE
    /\ events = <<>>
    /\ windowOpen = TRUE

PvOff ==
    /\ pvPc = "off"
    /\ pvTags = <<>>
    /\ pvHop = 1
    /\ pvTotal = 0
    /\ pvShape = 0
    /\ pvRanges = <<>>

\* no buffer is being sliced
SlOff ==
    /\ slPc = "off"
    /\ slEnv = <<>>
    /\ slCfg = <<>>
    /\ slRaw = <<>>
    /\ slAccepted = <<>>
    /\ slEps = <<>>
    /\ slRemovals = 0
    /\ slChunks = <<>>

Init == InitGui /\ PvOff /\ SlOff

\* _setProcessing with the setEnabled call of leThreshold left out
SetProcessing_SkipsThreshold(p) ==
    /\ btnStartText' = (IF p THEN "Slicing..." ELSE "Start")
    /\ enabled' = [w \in Widgets |-> IF w = "leThreshold" THEN enabled[w] ELSE ~p]
    /\ processing' = p

\* _setProcessing(processing)
SetProcessing(p) ==
    /\ btnStartText' = (IF p THEN "Slicing..." ELSE "Start")
    /\ enabled' = [w \in Widgets |-> ~p]
    /\ processing' = p

\* the user changes the text of line edit f to t
EditText(f, t) ==
    /\ enabled[f]
    /\ t # leText[f]
    /\ leText' = [leText EXCEPT ![f] = t]
    /\ UNCHANGED <<taskList, enabled, btnStartText, progressMax, progressValue,
                   workers, workCount, workFinished, processing, events>>
    /\ UNCHANGED <<pvVars, slVars, windowOpen>>

\* _on_browse_output_dir, the dialog returning path
OnBrowseOutputDir(path) ==
    /\ enabled["btnBrowse"]
    /\ leText' = (IF path # <<>>
                  THEN [leText EXCEPT !["leOutputDir"] = ToNativeSeparators(path)]
                  ELSE leText)
    /\ UNCHANGED <<taskList, enabled, btnStartText, progressMax, progressValue,
                   workers, workCount, workFinished, processing, events>>
    /\ UNCHANGED <<pvVars, slVars, windowOpen>>

\* _on_add_audio_files, the dialog returning paths
OnAddAudioFiles(paths) ==
    /\ enabled["btnAddFiles"]
    /\ Len(taskList) + Len(paths) <= MaxFiles
    /\ taskList' = (IF processing THEN taskList
                    ELSE taskList \o [i \in 1..Len(paths) |-> Item(paths[i])])
    /\ UNCHANGED <<leText, enabled, btnStartText, progressMax, progressValue,
                   workers, workCount, workFinished, processing, events>>
    /\ UNCHANGED <<pvVars, slVars, windowOpen>>

\* _on_remove_audio_file: reads the selection and returns
OnRemoveAudioFile ==
    /\ UNCHANGED guiVars
    /\ UNCHANGED <<pvVars, slVars, windowOpen>>

\* _on_clear_audio_list
OnClearAudioList ==
    /\ enabled["btnClearList"]
    /\ taskList' = (IF processing THEN taskList ELSE <<>>)
    /\ UNCHANGED <<leText, enabled, btnStartText, progressMax, progressValue,
                   workers, workCount, workFinished, processing, events>>
    /\ UNCHANGED <<pvVars, slVars, windowOpen>>

\* the urls of a drop that dropEvent turns into items
DropAccepts(url) == url.local /\ Lower(SplitextExt(url.path)) = <<".", "w", "a", "v">>

\* dropEvent
DropEvent(urls) ==
    LET kept == SelectSeq(urls, DropAccepts)
    IN  /\ Len(taskList) + Len(kept) <= MaxFiles
        /\ taskList' = taskList \o [i \in 1..Len(kept) |-> Item(kept[i].path)]
        /\ UNCHANGED <<leText, enabled, btnStartText, progressMax, progressValue,
                       workers, workCount, workFinished, processing, events>>
        /\ UNCHANGED <<pvVars, slVars, windowOpen>>

\* StartRun with the call _setProcessing(True) left out
StartRun_NoFlag(item_count) ==
    LET paths == [i \in 1..item_count |-> taskList[i].data]
        bar   == BarSetMaximum(progressMax, progressValue, item_count)
    IN  /\ progressMax' = bar[1]
        /\ progressValue' = BarSetValue(bar[1], bar[2], 0)
        /\ workCount' = item_count
        /\ workFinished' = 0
        /\ workers' = Append(workers, NewWorker(paths))
        /\ UNCHANGED <<taskList, leText, events, btnStartText, enabled, processing>>

\* StartRun with the statement self.workFinished = 0 left out
StartRun_NoReset(item_count) ==
    LET paths == [i \in 1..item_count |-> taskList[i].data]
        bar   == BarSetMaximum(progressMax, progressValue, item_count)
    IN  /\ progressMax' = bar[1]
        /\ progressValue' = BarSetValue(bar[1], bar[2], 0)
        /\ workCount' = item_count
        /\ SetProcessing(TRUE)
        /\ workers' = Append(workers, NewWorker(paths))
        /\ UNCHANGED <<taskList, leText, events, workFinished>>

\* _on_start from "Collect paths" on: the run over the item_count items
StartRun(item_count) ==
    LET paths == [i \in 1..item_count |-> taskList[i].data]
        bar   == BarSetMaximum(progressMax, progressValue, item_count)
    IN  /\ progressMax' = bar[1]
        /\ progressValue' = BarSetValue(bar[1], bar[2], 0)
        /\ workCount' = item_count
        /\ workFinished' = 0
        /\ SetProcessing(TRUE)
        /\ workers' = Append(workers, NewWorker(paths))
        /\ UNCHANGED <<taskList, leText, events>>

\* _on_start with the test item_count == 0 left out
OnStart_NoEmptyCheck ==
    /\ enabled["btnStart"]
    /\ IF processing
       THEN UNCHANGED guiVars
       ELSE StartRun(Len(taskList))
    /\ UNCHANGED <<pvVars, slVars, windowOpen>>

\* _on_start
OnStart ==
    /\ enabled["btnStart"]
    /\ IF processing
       THEN UNCHANGED guiVars
       ELSE IF Len(taskList) = 0
            THEN UNCHANGED guiVars
            ELSE StartRun(Len(taskList))
    /\ UNCHANGED <<pvVars, slVars, windowOpen>>

\* _oneFinished, delivered from the event queue
OneFinished ==
    /\ events # <<>> /\ Head(events) = "oneFinished"
    /\ events' = Tail(events)
    /\ workFinished' = workFinished + 1
    /\ progressValue' = BarSetValue(progressMax, progressValue, workFinished + 1)
    /\ UNCHANGED <<taskList, leText, enabled, btnStartText, progressMax,
                   workers, workCount, processing>>
    /\ UNCHANGED <<pvVars, slVars, windowOpen>>

\* _threadFinished with the call _setProcessing(False) left out
ThreadFinished_KeepsFlag ==
    /\ events # <<>> /\ Head(events) = "finished"
    /\ \A i \in 1..Len(workers) : workers[i].pc = "done"
    /\ events' = Tail(events)
    /\ workers' = <<>>
    /\ UNCHANGED <<taskList, leText, progressMax, progressValue, workCount,
                   workFinished, btnStartText, enabled, processing>>
    /\ UNCHANGED <<pvVars, slVars, windowOpen>>

\* _threadFinished, delivered from the event queue; worker.wait() returns once
\* the thread has ended
ThreadFinished ==
    /\ events # <<>> /\ Head(events) = "finished"
    /\ \A i \in 1..Len(workers) : workers[i].pc = "done"
    /\ events' = Tail(events)
    /\ workers' = <<>>
    /\ SetProcessing(FALSE)
    /\ UNCHANGED <<taskList, leText, progressMax, progressValue, workCount,
                   workFinished>>
    /\ UNCHANGED <<pvVars, slVars, windowOpen>>

\* closeEvent with the test of self.processing left out
CloseEvent_NoCheck ==
    /\ windowOpen' = FALSE
    /\ UNCHANGED <<guiVars, pvVars, slVars>>

\* closeEvent: while processing, a warning and event.ignore(); otherwise the
\* event keeps its default, accepted, and the window closes
CloseEvent ==
    /\ IF processing
       THEN windowOpen' = windowOpen
       ELSE windowOpen' = FALSE
    /\ UNCHANGED <<guiVars, pvVars, slVars>>

-----------------------------------------------------------------------------
(* WorkThread.run, one statement group at a time *)

\* an exception leaves run(): the thread ends and QThread emits finished
Raise(w) == [w EXCEPT !.pc = "done", !.failedAt = w.idx]

\* Slicer(sr=sr, threshold=float(...), min_length=int(...), ...): the parsed
\* parameters <<TRUE, <<threshold, min_length, min_interval, hop_size,
\* max_sil_kept>>>>, or <<FALSE, <<>>>> when a conversion raises ValueError
SlicerArgs(text) ==
    LET th == ParseFloat(text["leThreshold"])
        ml == ParseInt(text["leMinLen"])
        mi == ParseInt(text["leMinInterval"])
        hs == ParseInt(text["leHopSize"])
        ms == ParseInt(text["leMaxSilence"])
    IN  IF th[1] /\ ml[1] /\ mi[1] /\ hs[1] /\ ms[1]
        THEN <<TRUE, <<th[2], ml[2], mi[2], hs[2], ms[2]>>>>
        ELSE <<FALSE, <<>>>>

\* out_dir after the if/else that follows its read
OutDirFor(text, filename) ==
    IF text["leOutputDir"] = <<>> THEN Dirname(Abspath(filename))
    ELSE text["leOutputDir"]

\* ChunkPath with the chunks numbered from 1
ChunkPath_OneBased(out_dir, filename, i) ==
    Join(out_dir, RsplitStem(Basename(filename)) \o <<"_">> \o Dec(i + 1)
                  \o <<".", "w", "a", "v">>)

\* the path of chunk i of filename
ChunkPath(out_dir, filename, i) ==
    Join(out_dir, RsplitStem(Basename(filename)) \o <<"_">> \o Dec(i)
                  \o <<".", "w", "a", "v">>)

\* the for loop over self.filenames has no file left
LoopDone(w) == w.idx > Len(w.filenames)

\* ChunksDone with the loop left one chunk early
ChunksDone_OneEarly(w) == w.chunk >= w.nchunks - 1

\* the for loop over enumerate(chunks) has no chunk left
ChunksDone(w) == w.chunk >= w.nchunks

\* the worker after soundfile.write of its current chunk
AfterWrite(w) ==
    [w EXCEPT !.log = Append(@, [file  |-> w.idx,
                                 chunk |-> w.chunk,
                                 path  |-> ChunkPath(w.out_dir,
                                                     w.filenames[w.idx], w.chunk)]),
              !.chunk = @ + 1]

\* the worker after self.oneFinished.emit(), at the next filename
AfterEmit(w) == [w EXCEPT !.emitted = @ + 1, !.idx = @ + 1, !.pc = "read"]

\* run() returns: the thread ends and QThread emits finished
WReturn(i) ==
    /\ workers[i].pc = "read" /\ LoopDone(workers[i])
    /\ workers' = [workers EXCEPT ![i].pc = "done"]
    /\ events' = Append(events, "finished")
    /\ UNCHANGED <<taskList, leText, enabled, btnStartText, progressMax,
                   progressValue, workCount, workFinished, processing>>
    /\ UNCHANGED <<pvVars, slVars, windowOpen>>

\* soundfile.read(filename): returns the audio (ok) or raises
WRead(i, ok) ==
    /\ workers[i].pc = "read" /\ ~LoopDone(workers[i])
    /\ workers' = [workers EXCEPT ![i] = IF ok THEN [@ EXCEPT !.pc = "slicer"]
                                         ELSE Raise(@)]
    /\ events' = (IF ok THEN events ELSE Append(events, "finished"))
    /\ UNCHANGED <<taskList, leText, enabled, btnStartText, progressMax,
                   progressValue, workCount, workFinished, processing>>
    /\ UNCHANGED <<pvVars, slVars, windowOpen>>

\* slicer = Slicer(...), its arguments converted from the line edits
WSlicer(i) ==
    LET args == SlicerArgs(leText)
    IN  /\ workers[i].pc = "slicer"
        /\ workers' = [workers EXCEPT ![i] =
                          IF args[1] THEN [@ EXCEPT !.slicer = args[2], !.pc = "slice"]
                          ELSE Raise(@)]
        /\ events' = (IF args[1] THEN events ELSE Append(events, "finished"))
        /\ UNCHANGED <<taskList, leText, enabled, btnStartText, progressMax,
                       progressValue, workCount, workFinished, processing>>
        /\ UNCHANGED <<pvVars, slVars, windowOpen>>

\* get_slice_tags and slice return n chunks (ok) or raise; then out_dir is
\* read and, when given, created
WSlice(i, ok, n) ==
    /\ workers[i].pc = "slice"
    /\ workers' = [workers EXCEPT ![i] =
                      IF ok
                      THEN [@ EXCEPT !.nchunks = n,
                                     !.chunk = 0,
                                     !.counts = Append(@, n),
                                     !.out_dir = OutDirFor(leText,
                                                     workers[i].filenames[workers[i].idx]),
                                     !.pc = "write"]
                      ELSE Raise(@)]
    /\ events' = (IF ok THEN events ELSE Append(events, "finished"))
    /\ UNCHANGED <<taskList, leText, enabled, btnStartText, progressMax,
                   progressValue, workCount, workFinished, processing>>
    /\ UNCHANGED <<pvVars, slVars, windowOpen>>

\* soundfile.write(path, chunk, sr): writes the file (ok) or raises
WWrite(i, ok) ==
    /\ workers[i].pc = "write" /\ ~ChunksDone(workers[i])
    /\ workers' = [workers EXCEPT ![i] = IF ok THEN AfterWrite(@) ELSE Raise(@)]
    /\ events' = (IF ok THEN events ELSE Append(events, "finished"))
    /\ UNCHANGED <<taskList, leText, enabled, btnStartText, progressMax,
                   progressValue, workCount, workFinished, processing>>
    /\ UNCHANGED <<pvVars, slVars, windowOpen>>

\* self.oneFinished.emit() after the last chunk
WEmit(i) ==
    /\ workers[i].pc = "write" /\ ChunksDone(workers[i])
    /\ workers' = [workers EXCEPT ![i] = AfterEmit(@)]
    /\ events' = Append(events, "oneFinished")
    /\ UNCHANGED <<taskList, leText, enabled, btnStartText, progressMax,
                   progressValue, workCount, workFinished, processing>>
    /\ UNCHANGED <<pvVars, slVars, windowOpen>>

-----------------------------------------------------------------------------
(* The main window's specification *)

\* the user acts on the window while it is open
UserEdit ==
    windowOpen /\ \E f \in Fields : \E t \in TextsOf(f) : EditText(f, t)
UserBrowse == windowOpen /\ \E path \in BrowseDirs : OnBrowseOutputDir(path)
UserAdd ==
    windowOpen /\ \E paths \in SeqsOf(DialogPaths, 0, MaxPick) : OnAddAudioFiles(paths)
UserRemove == windowOpen /\ OnRemoveAudioFile
UserClear == windowOpen /\ OnClearAudioList
UserDrop == windowOpen /\ \E urls \in SeqsOf(DropUrls, 1, MaxPick) : DropEvent(urls)
UserStart == windowOpen /\ OnStart
UserClose == windowOpen /\ CloseEvent

WorkerStep ==
    \E i \in 1..Len(workers) :
        \/ WReturn(i)
        \/ \E ok \in BOOLEAN : WRead(i, ok)
        \/ WSlicer(i)
        \/ \E ok \in BOOLEAN : \E n \in 0..MaxChunks : WSlice(i, ok, n)
        \/ \E ok \in BOOLEAN : WWrite(i, ok)
        \/ WEmit(i)

Deliver == OneFinished \/ ThreadFinished

Next ==
    \/ UserEdit
    \/ UserBrowse
    \/ UserAdd
    \/ UserRemove
    \/ UserClear
    \/ UserDrop
    \/ UserStart
    \/ UserClose
    \/ WorkerStep
    \/ Deliver

Spec == Init /\ [][Next]_vars

\* the worker thread is scheduled and the GUI thread's event loop delivers its
\* queued events
FairSpec == Spec /\ WF_vars(WorkerStep) /\ WF_vars(Deliver)

-----------------------------------------------------------------------------
(* SlicingPreview: the chunk ranges drawn over the waveform *)

\* the longest waveform, in frames
MaxShape == 6
\* the largest hop size
MaxHop == 2
\* the most silence tags
MaxTags == 2

\* _apply_slice(begin, end)
ApplySlice(begin, end, hop_size, waveform_shape) ==
    <<begin * hop_size, Min(waveform_shape, end * hop_size)>>

\* _get_ranges(sil_tags)
GetRanges(sil_tags, hop_size, total_frames, waveform_shape) ==
    IF Len(sil_tags) = 0
    THEN <<>>
    ELSE LET n == Len(sil_tags)
             first == IF sil_tags[1][1] > 0
                      THEN <<ApplySlice(0, sil_tags[1][1], hop_size, waveform_shape)>>
                      ELSE <<>>
             mid == [i \in 1..(n - 1) |->
                        ApplySlice(sil_tags[i][2], sil_tags[i + 1][1],
                                   hop_size, waveform_shape)]
             last == IF sil_tags[n][2] < total_frames
                     THEN <<ApplySlice(sil_tags[n][2], total_frames,
                                       hop_size, waveform_shape)>>
                     ELSE <<>>
         IN  first \o mid \o last

\* the silence tags of a waveform of total hops: pairs <<begin, end>> in hop
\* units, begin < end, in order, none overlapping another
TagLists(total) ==
    LET Tag == {t \in (0..total) \X (0..total) : t[1] < t[2]}
    IN  {ts \in SeqsOf(Tag, 0, MaxTags) :
            \A i \in 1..(Len(ts) - 1) : ts[i][2] <= ts[i + 1][1]}

\* a preview constructed for a waveform of pvShape frames
InitPreview ==
    /\ InitGui
    /\ pvPc = "ready"
    /\ pvHop \in 1..MaxHop
    /\ pvShape \in 1..MaxShape
    /\ pvTotal = (pvShape + pvHop - 1) \div pvHop
    /\ pvTags \in TagLists(pvTotal)
    /\ pvRanges = <<>>
    /\ SlOff

\* _plot_preview computes ranges = self._get_ranges(sil_tags=self.sil_tags)
PlotPreview ==
    /\ pvPc = "ready"
    /\ pvRanges' = GetRanges(pvTags, pvHop, pvTotal, pvShape)
    /\ pvPc' = "done"
    /\ UNCHANGED <<pvTags, pvHop, pvTotal, pvShape>>
    /\ UNCHANGED <<guiVars, slVars, windowOpen>>

NextPreview == PlotPreview

SpecPreview == InitPreview /\ [][NextPreview]_vars

-----------------------------------------------------------------------------
(* The slicing engine behind Slicer.get_slice_tags and Slicer.slice.  Its   *)
(* code is not part of the sources at hand; it is modelled from the design  *)
(* of the SilenceStateMachine, the BoundaryTrimmer and the Segmenter.       *)
(* Episodes and chunks are pairs <<start, end>>, end exclusive.             *)

\* the longest envelope, in hops
MaxHops == 4
\* the largest hop_size_frames
MaxHopSize == 2
\* the largest min_interval_frames
MaxInterval == 2
\* the largest max_silence_kept_frames
MaxKept == 1
\* the largest min_length_frames
MaxMinLen == 4

\* threshold_db of the configurations of the model
SlThreshold == -40

\* the loudness values of a hop: below, at and above the threshold
Loudness == {SlThreshold - 1, SlThreshold, SlThreshold + 1}

\* BelowThreshold with the tie at the threshold counted as silence
BelowThreshold_Inclusive(db, threshold_db) == db <= threshold_db

\* a hop counts as silent when its loudness is strictly below the threshold
BelowThreshold(db, threshold_db) == db < threshold_db

\* the scan of detect() from hop i (0-based) on; open is the start_hop of the
\* episode being in state SILENT, or -1 in state SPEECH
RECURSIVE DetectFrom(_, _, _, _, _)
DetectFrom(envelope, threshold_db, i, open, acc) ==
    IF i = Len(envelope)
    THEN IF open >= 0 THEN Append(acc, <<open, Len(envelope)>>) ELSE acc
    ELSE IF BelowThreshold(envelope[i + 1], threshold_db)
         THEN DetectFrom(envelope, threshold_db, i + 1,
                         IF open >= 0 THEN open ELSE i, acc)
         ELSE DetectFrom(envelope, threshold_db, i + 1, -1,
                         IF open >= 0 THEN Append(acc, <<open, i>>) ELSE acc)

\* SilenceStateMachine: detect(envelope, threshold_db)
Detect(envelope, threshold_db) == DetectFrom(envelope, threshold_db, 0, -1, <<>>)

\* the minimum-interval filter keeps an episode of at least min_interval frames
KeepsInterval(ep, cfg) == (ep[2] - ep[1]) * cfg.hop >= cfg.min_interval

\* the maximum-kept-silence clamp: the frame range of the episode, each edge
\* moved max_kept frames inwards but not across the midpoint
Clamp(ep, cfg) ==
    LET s   == ep[1] * cfg.hop
        e   == ep[2] * cfg.hop
        mid == (s + e) \div 2
    IN  <<Min(s + cfg.max_kept, mid),
          IF e - cfg.max_kept > mid THEN e - cfg.max_kept ELSE mid>>

\* BoundaryTrimmer: the two policies of trim(), in order
TrimPolicies(raw, cfg) ==
    LET kept == SelectSeq(raw, LAMBDA ep : KeepsInterval(ep, cfg))
    IN  [i \in 1..Len(kept) |-> Clamp(kept[i], cfg)]

\* Segmenter: the chunk ranges, the complement of the episodes within
\* [0, total_frames); a zero-length complement is not emitted
Segment(eps, total_frames) ==
    IF Len(eps) = 0
    THEN <<<<0, total_frames>>>>
    ELSE LET n == Len(eps)
             gaps == [i \in 1..(n + 1) |->
                         <<IF i = 1 THEN 0 ELSE eps[i - 1][2],
                           IF i = n + 1 THEN total_frames ELSE eps[i][1]>>]
         IN  SelectSeq(gaps, LAMBDA g : g[1] < g[2])

\* a chunk shorter than min_length_frames
TooShort(c, cfg) == c[2] - c[1] < cfg.min_length

\* the min-length pass stops when every chunk satisfies the minimum or only
\* one chunk remains
PassDone(eps, cfg) ==
    LET chunks == Segment(eps, cfg.total)
    IN  \/ \A i \in DOMAIN chunks : ~TooShort(chunks[i], cfg)
        \/ Len(chunks) <= 1

\* episode k is adjacent to a too-short chunk: one of its boundaries creates it
CreatesShortChunk(eps, k, cfg) ==
    LET chunks == Segment(eps, cfg.total)
    IN  \E i \in DOMAIN chunks :
            /\ TooShort(chunks[i], cfg)
            /\ (eps[k][2] = chunks[i][1] \/ eps[k][1] = chunks[i][2])

\* eps without its k-th episode
DropEpisode(eps, k) == SubSeq(eps, 1, k - 1) \o SubSeq(eps, k + 1, Len(eps))

\* the buffers and configurations of the model: an envelope of 1..MaxHops
\* hops over a buffer whose last hop may be partial
InitSlicer ==
    /\ InitGui
    /\ PvOff
    /\ slPc = "env"
    /\ slEnv \in SeqsOf(Loudness, 1, MaxHops)
    /\ slCfg \in {c \in [threshold    : {SlThreshold},
                         hop          : 1..MaxHopSize,
                         min_interval : 1..MaxInterval,
                         max_kept     : 0..MaxKept,
                         min_length   : 1..MaxMinLen,
                         total        : 1..(MaxHops * MaxHopSize)] :
                     (c.total + c.hop - 1) \div c.hop = Len(slEnv)}
    /\ slRaw = <<>>
    /\ slAccepted = <<>>
    /\ slEps = <<>>
    /\ slRemovals = 0
    /\ slChunks = <<>>

\* the state machine scans the envelope
SlDetect ==
    /\ slPc = "env"
    /\ slRaw' = Detect(slEnv, slCfg.threshold)
    /\ slPc' = "raw"
    /\ UNCHANGED <<slEnv, slCfg, slAccepted, slEps, slRemovals, slChunks>>
    /\ UNCHANGED <<guiVars, pvVars, windowOpen>>

\* the trimmer filters and clamps the raw episodes
SlTrim ==
    /\ slPc = "raw"
    /\ slAccepted' = TrimPolicies(slRaw, slCfg)
    /\ slEps' = TrimPolicies(slRaw, slCfg)
    /\ slPc' = "pass"
    /\ UNCHANGED <<slEnv, slCfg, slRaw, slRemovals, slChunks>>
    /\ UNCHANGED <<guiVars, pvVars, windowOpen>>

\* one removal of the min-length pass: the episode k next to a too-short
\* chunk is dropped
SlDrop(k) ==
    /\ slPc = "pass"
    /\ ~PassDone(slEps, slCfg)
    /\ CreatesShortChunk(slEps, k, slCfg)
    /\ slEps' = DropEpisode(slEps, k)
    /\ slRemovals' = slRemovals + 1
    /\ UNCHANGED <<slPc, slEnv, slCfg, slRaw, slAccepted, slChunks>>
    /\ UNCHANGED <<guiVars, pvVars, windowOpen>>

\* the pass is over and the segmenter emits the chunks
SlSegment ==
    /\ slPc = "pass"
    /\ PassDone(slEps, slCfg)
    /\ slChunks' = Segment(slEps, slCfg.total)
    /\ slPc' = "done"
    /\ UNCHANGED <<slEnv, slCfg, slRaw, slAccepted, slEps, slRemovals>>
    /\ UNCHANGED <<guiVars, pvVars, windowOpen>>

NextSlicer ==
    \/ SlDetect
    \/ SlTrim
    \/ \E k \in DOMAIN slEps : SlDrop(k)
    \/ SlSegment

SpecSlicer == InitSlicer /\ [][NextSlicer]_vars

-----------------------------------------------------------------------------
(* The properties *)

\* the number of queued events of one kind
Pending(kind) == Cardinality({k \in DOMAIN events : events[k] = kind})

\* the number of soundfile.write calls worker w has made for its j-th file
WrittenFor(w, j) == Cardinality({k \in DOMAIN w.log : w.log[k].file = j})

\* the current texts are a configuration Slicer can be constructed from
ConfigValid == SlicerArgs(leText)[1]

\* C1: overlapping runs are disallowed.  At most one worker thread exists at
\* a time, and it exists exactly while processing is true; while processing
\* is true no step (a start request included) adds a worker, changes
\* workCount or the progress bar's maximum, or takes workFinished or the
\* progress bar's value back.
C1_NoOverlappingRuns ==
    /\ [](Len(workers) <= 1 /\ (processing <=> Len(workers) = 1))
    /\ [][processing =>
            /\ Len(workers') <= Len(workers)
            /\ workCount' = workCount
            /\ progressMax' = progressMax
            /\ workFinished' >= workFinished
            /\ progressValue' >= progressValue]_vars

\* C1 witness: a worker is in the middle of writing chunks, the run is on and
\* the start button is switched off.
C1_Witness ==
    /\ processing
    /\ Len(workers) = 1
    /\ workers[1].pc = "write"
    /\ workers[1].chunk = 1
    /\ ~enabled["btnStart"]

\* what C2 says of every state of a worker's run
C2_Run(w) ==
    \* one event per file, emitted before any work on the next file
    /\ w.emitted = w.idx - 1
    /\ w.emitted <= Len(w.filenames)
    /\ Len(w.counts) <= w.emitted + 1
    /\ \A k \in DOMAIN w.log : w.log[k].file <= w.emitted + 1
    \* emitted only after every chunk of the file was written
    /\ \A j \in 1..w.emitted : j <= Len(w.counts) /\ WrittenFor(w, j) = w.counts[j]
    \* every event emitted is handled or waits in the queue
    /\ workFinished + Pending("oneFinished") = w.emitted
    \* one batch-finished event, posted by the thread's end, behind all others
    /\ Pending("finished") = (IF w.pc = "done" THEN 1 ELSE 0)
    /\ w.pc = "done" => events[Len(events)] = "finished"

\* C2: in a run over n files, one file-finished event is emitted per file,
\* after all chunks of that file are written and before any work on the next
\* file; the batch-finished handler runs once, and, when no file failed, only
\* after all n file-finished events were handled.
C2_OneEventPerFile ==
    /\ [](\A i \in DOMAIN workers : C2_Run(workers[i]))
    /\ [](~processing => Pending("finished") = 0)
    /\ [][(processing /\ ~processing') =>
            \A i \in DOMAIN workers :
                workers[i].failedAt = 0 =>
                    /\ workers[i].emitted = Len(workers[i].filenames)
                    /\ workFinished = Len(workers[i].filenames)
                    /\ workFinished = workCount
                    /\ events' = <<>>]_vars

\* C2 witness: a run over MaxFiles files has ended with every file counted.
C2_Witness ==
    /\ ~processing
    /\ workCount = MaxFiles
    /\ workFinished = workCount
    /\ progressValue = workCount

\* C3: when a file of a run fails, every later file of the list is still
\* processed: it is sliced and all its chunks are written.
C3_LaterFilesProcessed ==
    \A i \in DOMAIN workers :
        (workers[i].pc = "done" /\ workers[i].failedAt # 0) =>
            \A j \in (workers[i].failedAt + 1)..Len(workers[i].filenames) :
                /\ j <= Len(workers[i].counts)
                /\ WrittenFor(workers[i], j) = workers[i].counts[j]

\* C4: a start request under an invalid configuration is refused before any
\* processing: the processing flag stays false, no worker is started and no
\* event is posted.
C4_InvalidConfigRejected ==
    [][(~processing /\ ~ConfigValid) =>
          (~processing' /\ workers' = workers /\ events' = events)]_vars

\* C5: while a run is active no action changes the contents of the task list.
C5_ListFrozenWhileProcessing ==
    [][processing => taskList' = taskList]_vars

\* C6: all files of a run are sliced under one configuration.  The slicer
\* parameters and the output directory a worker holds are the ones the line
\* edits show now, and while processing is true no step changes the text of
\* a line edit.
C6_SharedConfig ==
    /\ [](\A i \in DOMAIN workers :
            /\ workers[i].slicer # <<>> =>
                   workers[i].slicer = SlicerArgs(leText)[2]
            /\ workers[i].out_dir # <<>> =>
                   \E j \in DOMAIN workers[i].filenames :
                       workers[i].out_dir = OutDirFor(leText, workers[i].filenames[j]))
    /\ [][processing => leText' = leText]_vars

\* C6 witness: the worker has constructed the slicer for its second file.
C6_Witness ==
    /\ processing
    /\ Len(workers) = 1
    /\ workers[1].idx = 2
    /\ workers[1].pc = "slice"
    /\ workers[1].slicer # <<>>
    /\ workers[1].out_dir # <<>>

\* C7: a start request with an empty task list does nothing.  From an idle
\* state with an empty list no step sets processing, creates a worker, posts
\* an event, or changes workCount, workFinished, the progress bar or the
\* enabled widgets.
C7_EmptyStartNoOp ==
    [][(taskList = <<>> /\ ~processing) =>
          /\ ~processing'
          /\ workers' = workers
          /\ events' = events
          /\ workCount' = workCount
          /\ workFinished' = workFinished
          /\ progressMax' = progressMax
          /\ progressValue' = progressValue
          /\ enabled' = enabled
          /\ btnStartText' = btnStartText]_vars

\* C7 witness: the list is empty after a run, the start button is enabled and
\* the counters still hold the values of that run.
C7_Witness ==
    /\ taskList = <<>>
    /\ ~processing
    /\ enabled["btnStart"]
    /\ workCount = MaxFiles
    /\ workFinished = MaxFiles
    /\ progressMax = MaxFiles

\* C8: every accepted start is followed by a batch completion, whether or not
\* a file failed; while the run is on, exactly one completion is still to
\* come (a thread that has not ended, or its queued finished event); after it
\* processing is false, the worker list and the event queue are empty and the
\* controls are enabled, so that a start request is taken again.
C8_BatchCompletes ==
    /\ processing ~> ~processing
    /\ [](processing =>
            Pending("finished")
              + Cardinality({i \in DOMAIN workers : workers[i].pc # "done"}) = 1)
    /\ [](~processing =>
            /\ workers = <<>>
            /\ events = <<>>
            /\ btnStartText = "Start"
            /\ \A w \in Widgets : enabled[w])

\* C8 witness: a run in which a file failed has completed.
C8_Witness ==
    /\ ~processing
    /\ workers = <<>>
    /\ workCount = MaxFiles
    /\ workFinished < workCount
    /\ enabled["btnStart"]

\* the stem C9 expects for the files of the model
C9_Stem(path) ==
    CASE path = FileA -> <<"a">>
      [] path = FileB -> <<"a">>
      [] path = FileC -> <<"b", ".", "c">>

\* the directory C9 expects: the output directory if one is given, else the
\* directory of the source file
C9_Dir(path) ==
    IF leText["leOutputDir"] # <<>> THEN leText["leOutputDir"]
    ELSE CASE path = FileA -> <<"/", "d">>
           [] path = FileB -> <<"/", "e">>
           [] path = FileC -> <<"/", "d">>

\* C9: for a file whose slicing yields n chunks, exactly n files are written,
\* the k-th (k = 0..n-1, in emission order) to {basename}_{k} followed by
\* ".wav"; the indices have no gap and no repeat and restart at 0 for every
\* input file.
C9_ChunkNames ==
    \A i \in DOMAIN workers :
        LET w == workers[i]
        IN  /\ \A k \in DOMAIN w.log :
                   /\ w.log[k].chunk < 10
                   /\ w.log[k].path =
                          C9_Dir(w.filenames[w.log[k].file]) \o <<"/">>
                          \o C9_Stem(w.filenames[w.log[k].file]) \o <<"_">>
                          \o <<Digits[w.log[k].chunk + 1]>> \o <<".", "w", "a", "v">>
                   \* the k-th write of a file carries index k
                   /\ w.log[k].chunk =
                          Cardinality({m \in 1..(k - 1) : w.log[m].file = w.log[k].file})
                   \* the writes of one file are not interleaved with another's
                   /\ \A m \in 1..(k - 1) : w.log[m].file <= w.log[k].file
            /\ \A j \in DOMAIN w.filenames :
                   \* a file whose chunks are all done has one write per chunk
                   /\ j < w.idx => WrittenFor(w, j) = w.counts[j]
                   /\ (j = w.idx /\ w.pc = "write") =>
                          (WrittenFor(w, j) = w.chunk /\ w.chunk <= w.nchunks)
                   /\ j > w.idx => WrittenFor(w, j) = 0

\* C9 witness: two files of MaxChunks chunks each have been written.
C9_Witness ==
    /\ Len(workers) = 1
    /\ Len(workers[1].log) = 2 * MaxChunks
    /\ workers[1].log[2 * MaxChunks].file = 2
    /\ workers[1].log[2 * MaxChunks].chunk = MaxChunks - 1

\* C10: for an empty list of silence tags _get_ranges returns exactly one
\* range, the whole buffer [0, waveform_shape).
C10_NoTagsOneRange ==
    (pvPc = "done" /\ pvTags = <<>>) => pvRanges = <<<<0, pvShape>>>>

\* the number of ranges of rs that hold frame f
C11_InRanges(rs, f) ==
    Cardinality({i \in DOMAIN rs : rs[i][1] <= f /\ f < rs[i][2]})

\* the number of silence tags (hop units) that hold frame f
C11_InTags(f) ==
    Cardinality({i \in DOMAIN pvTags :
                    pvTags[i][1] * pvHop <= f /\ f < pvTags[i][2] * pvHop})

\* C11: the ranges _get_ranges returns are the complement of the silence tags
\* within the buffer: each lies in [0, waveform_shape], they are strictly
\* increasing and do not overlap, and every frame of [0, waveform_shape) is
\* in exactly one range or tag.
C11_RangesAreComplement ==
    pvPc = "done" =>
        /\ \A i \in DOMAIN pvRanges :
               0 <= pvRanges[i][1] /\ pvRanges[i][1] <= pvRanges[i][2]
                                   /\ pvRanges[i][2] <= pvShape
        /\ \A i \in 1..(Len(pvRanges) - 1) :
               /\ pvRanges[i][1] < pvRanges[i + 1][1]
               /\ pvRanges[i][2] <= pvRanges[i + 1][1]
        /\ \A f \in 0..(pvShape - 1) :
               C11_InRanges(pvRanges, f) + C11_InTags(f) = 1

\* C12: every range _get_ranges returns has start < end.
C12_NoEmptyRange ==
    pvPc = "done" => \A i \in DOMAIN pvRanges : pvRanges[i][1] < pvRanges[i][2]

\* C13: after the min-length pass every emitted chunk has at least
\* min_length_frames frames, except that a buffer of fewer frames is emitted
\* as exactly one chunk, the whole buffer; the pass only drops episodes, at
\* most as many as there were.
C13_MinChunkLength ==
    slPc = "done" =>
        /\ IF slCfg.total < slCfg.min_length
           THEN slChunks = <<<<0, slCfg.total>>>>
           ELSE \A i \in DOMAIN slChunks :
                    slChunks[i][2] - slChunks[i][1] >= slCfg.min_length
        /\ slRemovals <= Len(slAccepted)
        /\ Len(slEps) + slRemovals = Len(slAccepted)
        /\ \A i \in DOMAIN slEps : \E j \in DOMAIN slAccepted : slEps[i] = slAccepted[j]

\* C14: the raw episodes are exactly the maximal runs of hops whose loudness
\* is strictly below the threshold: in order, apart from one another, at
\* least one hop long, none holding a hop at or above the threshold, none
\* extendable, together holding every hop below the threshold; a run that
\* reaches the end of the envelope ends at len(envelope).
C14_EpisodesAreMaximalRuns ==
    slPc \in {"raw", "pass", "done"} =>
        /\ \A i \in DOMAIN slRaw :
               /\ 0 <= slRaw[i][1] /\ slRaw[i][1] < slRaw[i][2]
                                   /\ slRaw[i][2] <= Len(slEnv)
               /\ \A h \in slRaw[i][1]..(slRaw[i][2] - 1) :
                      slEnv[h + 1] < slCfg.threshold
               /\ slRaw[i][1] > 0 => slEnv[slRaw[i][1]] >= slCfg.threshold
               /\ slRaw[i][2] < Len(slEnv) =>
                      slEnv[slRaw[i][2] + 1] >= slCfg.threshold
        /\ \A i \in 1..(Len(slRaw) - 1) : slRaw[i][2] < slRaw[i + 1][1]
        /\ \A h \in 0..(Len(slEnv) - 1) :
               slEnv[h + 1] < slCfg.threshold =>
                   \E i \in DOMAIN slRaw : slRaw[i][1] <= h /\ h < slRaw[i][2]

\* C14 witness: an envelope with a hop at the threshold between two silent
\* runs, the second one open at the end of the envelope.
C14_Witness ==
    /\ slPc = "raw"
    /\ Len(slEnv) = MaxHops
    /\ Len(slRaw) = 2
    /\ slRaw[2][2] = Len(slEnv)
    /\ slEnv[slRaw[1][2] + 1] = slCfg.threshold
    /\ slRaw[1][2] + 1 = slRaw[2][1]

\* C18: the window is never closed while a run is in progress or a worker
\* exists: no step taken while processing closes the window or removes a
\* worker that has not finished, and while the window is open and nothing is
\* processing a close request closes it.
C18_NoCloseWhileProcessing ==
    /\ [](~windowOpen => ~processing /\ workers = <<>> /\ events = <<>>)
    /\ [][processing =>
            /\ windowOpen'
            /\ \A i \in DOMAIN workers :
                   workers[i].pc # "done" =>
                       i \in DOMAIN workers' /\ workers'[i].filenames = workers[i].filenames]_vars
    /\ [](windowOpen /\ ~processing => ENABLED (UserClose /\ ~windowOpen'))

\* C18 witness: the window was closed after a run had completed
C18_Witness ==
    /\ ~windowOpen
    /\ workCount > 0
    /\ workFinished = workCount

\* what C15 says of every state of a worker's run
C15_Run(w) ==
    \* the worker's files are the list as it was at the start: the first
    \* workCount entries of the list, which later additions leave in place
    /\ Len(w.filenames) = workCount
    /\ workCount <= Len(taskList)
    /\ \A j \in 1..workCount : taskList[j].data = w.filenames[j]
    \* in list order, each once: the files sliced so far are the first
    \* Len(w.counts), and chunks are written file after file
    /\ Len(w.counts) \in {w.idx - 1, w.idx} \cap 0..Len(w.filenames)
    /\ \A k \in 1..(Len(w.log) - 1) : w.log[k].file <= w.log[k + 1].file
    /\ \A k \in DOMAIN w.log : w.log[k].file \in 1..Len(w.counts)
    \* all of them: when run() has ended, the worker has come to every file,
    \* and has sliced and counted every file that did not fail
    /\ w.pc = "done" =>
           /\ w.idx >= Len(w.filenames)
           /\ w.failedAt = 0 => /\ Len(w.counts) = Len(w.filenames)
                                /\ w.emitted = Len(w.filenames)

\* C15: the worker of a run processes exactly the files that were in the
\* task list when the start request was accepted, each once and in list
\* order, and workCount is their number; entries added after the start do
\* not change what the worker processes.
C15_WorkerProcessesSnapshot ==
    \A i \in DOMAIN workers : C15_Run(workers[i])

\* C16: within one run no two chunk writes target the same output path, so
\* the chunks of one task-list entry never overwrite those of another.
C16_DistinctOutputPaths ==
    \A i \in DOMAIN workers :
        \A k, l \in DOMAIN workers[i].log :
            k # l => workers[i].log[k].path # workers[i].log[l].path

\* C17: in every state 0 <= workFinished <= workCount and the progress
\* bar's value is workFinished; a start that is accepted takes workFinished
\* and the bar to 0 with no event waiting, and what is counted during a run
\* are the events of that run's worker, so no event of an earlier run is
\* counted in a later one.
C17_ProgressCountsThisRun ==
    /\ [](/\ 0 <= workFinished /\ workFinished <= workCount
          /\ progressValue = workFinished
          /\ ~processing => events = <<>>
          /\ \A i \in DOMAIN workers :
                 workFinished + Pending("oneFinished") = workers[i].emitted)
    /\ [][(~processing /\ processing') =>
            /\ workFinished' = 0
            /\ progressValue' = 0
            /\ events' = <<>>
            /\ workCount' = Len(taskList)
            /\ \A i \in DOMAIN workers' : workers'[i].emitted = 0]_vars

\* C17 witness: in a run over MaxFiles files the worker has emitted every
\* file-finished event; one has been counted, the others wait in the queue.
C17_Witness ==
    /\ processing
    /\ workCount = MaxFiles
    /\ workFinished = 1
    /\ progressValue = 1
    /\ Len(workers) = 1
    /\ workers[1].emitted = MaxFiles
    /\ Pending("oneFinished") = MaxFiles - 1

====
